---- MODULE Spec2Model ----
(***************************************************************************)
(* Model of streamlit_app.py, the Lipid Profile Percentile Visualizer.     *)
(*                                                                         *)
(* The script is re-executed top to bottom each time a sidebar widget      *)
(* changes.  Every marker's percentile and risk level depend on that       *)
(* marker's widget alone, so the state follows one marker at a time: the   *)
(* widget that was changed last, its value, and what the script computes   *)
(* from it.                                                                *)
(*                                                                         *)
(* Numbers the script computes in floating point (np.interp, true          *)
(* division) are modelled as exact rationals [num, den] with den > 0;      *)
(* they are compared by cross-multiplication, never structurally.  Round   *)
(* trips through get_percentile, where the rounding of each operation      *)
(* decides whether the start comes back, are also computed in IEEE-754     *)
(* double arithmetic.                                                      *)
(***************************************************************************)
EXTENDS Integers, Sequences, FiniteSets

VARIABLES
    marker,                 \* the marker followed
    patient_value,          \* its measurement (apoB, nonHDL, LDL or lpa)
    patient_percentile,     \* <marker>_percentile
    risk_text, risk_color,  \* the metric card's get_risk_level result
    patient_percentile_int, \* int(round(<marker>_percentile))
    suffix,                 \* get_ordinal_suffix(<marker>_percentile_int)
    patient_position,       \* x coordinate of the patient marker on the chart
    chart_risk_text,        \* risk_text computed inside the chart builder
    patient_pos,            \* x coordinate of the marker on the exported chart
    tables,                 \* current contents of the module-level lists
    direction,              \* what a round trip starts from, "none" without one
    stage,                  \* how far it has got: "start", "there", "back"
    fused,                  \* whether the build fuses np.interp's multiply-add
    trip_exact,             \* the number in hand, in real arithmetic
    trip_double             \* the number in hand, as the double the code holds

vars == <<marker, patient_value, patient_percentile, risk_text, risk_color,
          patient_percentile_int, suffix, patient_position, chart_risk_text,
          patient_pos, tables, direction, stage, fused, trip_exact,
          trip_double>>

\* The state of a round trip through get_percentile.
trip == <<direction, stage, fused, trip_exact, trip_double>>

(***************************************************************************)
(* Bounds.                                                                 *)
(***************************************************************************)
\* Measurements handed to get_percentile as a pure function are the
\* multiples of 1/Resolution inside the widget's range.
Resolution == 1

\* Percentiles handed to get_risk_level, map_percentile_to_position and
\* get_ordinal_suffix as pure functions are the multiples of
\* 1/PctResolution in [0, MaxNum].
PctResolution == 2

MaxNum == 120

(***************************************************************************)
(* Rational arithmetic standing in for Python floats.                      *)
(***************************************************************************)
Rat(n, d) == [num |-> n, den |-> d]

FromInt(i) == Rat(i, 1)

RatAdd(a, b) == Rat(a.num * b.den + b.num * a.den, a.den * b.den)

RatSub(a, b) == Rat(a.num * b.den - b.num * a.den, a.den * b.den)

RatMul(a, b) == Rat(a.num * b.num, a.den * b.den)

RatDiv(a, b) ==
    IF b.num > 0 THEN Rat(a.num * b.den, a.den * b.num)
                 ELSE Rat(-(a.num * b.den), -(a.den * b.num))

RatEq(a, b) == a.num * b.den = b.num * a.den

RatLE(a, b) == a.num * b.den <= b.num * a.den

RatLT(a, b) == a.num * b.den < b.num * a.den

\* The application and the single calls make no round trip.
NoTrip ==
    /\ direction = "none"
    /\ stage = "none"
    /\ fused = FALSE
    /\ trip_exact = FromInt(0)
    /\ trip_double = [m |-> <<>>, e |-> 0]

(***************************************************************************)
(* Reference tables (module-level lists of the script).                    *)
(***************************************************************************)
percentiles == <<1, 5, 10, 20, 30, 40, 50, 60, 70, 80, 90, 95, 99>>

apoB_values == <<41, 54, 61, 70, 77, 84, 90, 97, 104, 113, 125, 137, 160>>

nonHDL_values == <<59, 79, 88, 103, 114, 125, 135, 145, 156, 170, 191, 208, 247>>

\* LDL_values with two digits of the ninth entry transposed (113 for 131).
LDL_values_transposed ==
    <<45, 63, 72, 85, 95, 104, 112, 121, 113, 143, 161, 176, 211>>

LDL_values == <<45, 63, 72, 85, 95, 104, 112, 121, 131, 143, 161, 176, 211>>

lpa_percentiles == <<75, 80, 90, 95, 98, 99>>

lpa_values == <<47, 60, 90, 116, 180, 245>>

std_key_percentiles == <<0, 5, 10, 20, 50, 75, 100>>

lpa_key_percentiles == <<0, 75, 80, 90, 95, 98, 99, 100>>

\* The lists as the top of the script assigns them.
ReferenceTables ==
    [percentiles         |-> percentiles,
     apoB_values         |-> apoB_values,
     nonHDL_values       |-> nonHDL_values,
     LDL_values          |-> LDL_values,
     lpa_percentiles     |-> lpa_percentiles,
     lpa_values          |-> lpa_values,
     std_key_percentiles |-> std_key_percentiles,
     lpa_key_percentiles |-> lpa_key_percentiles]

Markers == {"apoB", "nonHDL", "LDL", "lpa"}

StandardMarkers == {"apoB", "nonHDL", "LDL"}

\* The percentile list and the value list of a marker's reference table.
RefPercentiles(m) == IF m = "lpa" THEN lpa_percentiles ELSE percentiles

RefValues(m) ==
    CASE m = "apoB"   -> apoB_values
      [] m = "nonHDL" -> nonHDL_values
      [] m = "LDL"    -> LDL_values
      [] m = "lpa"    -> lpa_values

(***************************************************************************)
(* Sidebar widgets: st.sidebar.number_input(min_value, max_value, value).  *)
(* All three are Python ints, so the widget yields integers.               *)
(***************************************************************************)
min_value(m) ==
    CASE m = "apoB"   -> 20
      [] m = "nonHDL" -> 40
      [] m = "LDL"    -> 30
      [] m = "lpa"    -> 0

max_value(m) ==
    CASE m = "apoB"   -> 200
      [] m = "nonHDL" -> 250
      [] m = "LDL"    -> 230
      [] m = "lpa"    -> 250

default_value(m) ==
    CASE m = "apoB"   -> 90
      [] m = "nonHDL" -> 135
      [] m = "LDL"    -> 112
      [] m = "lpa"    -> 30

(***************************************************************************)
(* np.interp(x, xp, fp) for increasing xp: fp[1] left of xp, fp[Len] right *)
(* of it, fp[j] on a sample point, and otherwise                           *)
(* slope * (x - xp[j]) + fp[j] on the interval xp[j] <= x < xp[j+1].       *)
(***************************************************************************)
SearchInterval(x, xp) ==
    CHOOSE j \in 1..Len(xp) :
        /\ RatLE(FromInt(xp[j]), x)
        /\ (j < Len(xp) => RatLT(x, FromInt(xp[j + 1])))

\* Interp without the interpolation: the sample at the interval's left end.
Interp_left_sample(x, xp, fp) ==
    IF RatLT(FromInt(xp[Len(xp)]), x) THEN FromInt(fp[Len(fp)])
    ELSE IF RatLT(x, FromInt(xp[1])) THEN FromInt(fp[1])
    ELSE FromInt(fp[SearchInterval(x, xp)])

Interp(x, xp, fp) ==
    IF RatLT(FromInt(xp[Len(xp)]), x) THEN FromInt(fp[Len(fp)])
    ELSE IF RatLT(x, FromInt(xp[1])) THEN FromInt(fp[1])
    ELSE LET j == SearchInterval(x, xp) IN
         IF j = Len(xp) THEN FromInt(fp[j])
         ELSE IF RatEq(x, FromInt(xp[j])) THEN FromInt(fp[j])
         ELSE LET slope == RatDiv(FromInt(fp[j + 1] - fp[j]),
                                  FromInt(xp[j + 1] - xp[j]))
              IN  RatAdd(RatMul(slope, RatSub(x, FromInt(xp[j]))), FromInt(fp[j]))

(***************************************************************************)
(* get_percentile(value, perc_array, value_array)                          *)
(***************************************************************************)
\* get_percentile with the low clamp returning the other list's first entry.
get_percentile_low_from_values(value, perc_array, value_array) ==
    IF RatLE(value, FromInt(value_array[1])) THEN FromInt(value_array[1])
    ELSE IF RatLE(FromInt(value_array[Len(value_array)]), value)
         THEN FromInt(perc_array[Len(perc_array)])
    ELSE Interp(value, value_array, perc_array)

\* get_percentile with the high clamp returning the other list's last entry.
get_percentile_high_from_values(value, perc_array, value_array) ==
    IF RatLE(value, FromInt(value_array[1])) THEN FromInt(perc_array[1])
    ELSE IF RatLE(FromInt(value_array[Len(value_array)]), value)
         THEN FromInt(value_array[Len(value_array)])
    ELSE Interp(value, value_array, perc_array)

\* get_percentile with np.interp's xp and fp exchanged.
get_percentile_interp_swapped(value, perc_array, value_array) ==
    IF RatLE(value, FromInt(value_array[1])) THEN FromInt(perc_array[1])
    ELSE IF RatLE(FromInt(value_array[Len(value_array)]), value)
         THEN FromInt(perc_array[Len(perc_array)])
    ELSE Interp(value, perc_array, value_array)

get_percentile(value, perc_array, value_array) ==
    IF RatLE(value, FromInt(value_array[1])) THEN FromInt(perc_array[1])
    ELSE IF RatLE(FromInt(value_array[Len(value_array)]), value)
         THEN FromInt(perc_array[Len(perc_array)])
    ELSE Interp(value, value_array, perc_array)

\* The call sites with every marker passing (<marker>_values, percentiles),
\* the order of the Lp(a) call.
marker_percentile_all_reversed(m, value) ==
    get_percentile(value, RefValues(m), RefPercentiles(m))

\* The four module-level call sites: the standard markers pass
\* (percentiles, <marker>_values); the Lp(a) call passes
\* (lpa_values, lpa_percentiles).
marker_percentile(m, value) ==
    IF m = "lpa" THEN get_percentile(value, lpa_values, lpa_percentiles)
                 ELSE get_percentile(value, percentiles, RefValues(m))

(***************************************************************************)
(* get_risk_level(percentile, marker) -> (text, delta colour)              *)
(***************************************************************************)
\* get_risk_level with the Lp(a) tests written <= instead of <.
get_risk_level_lpa_le(percentile, mk) ==
    IF mk = "lpa"
    THEN IF RatLE(percentile, FromInt(75)) THEN <<"Low Risk", "normal">>
         ELSE IF RatLE(percentile, FromInt(90)) THEN <<"Moderate Risk", "off">>
         ELSE <<"High Risk", "inverse">>
    ELSE IF RatLE(percentile, FromInt(20)) THEN <<"Low Risk", "normal">>
         ELSE IF RatLT(percentile, FromInt(50)) THEN <<"Moderate Risk", "off">>
         ELSE <<"High Risk", "inverse">>

\* get_risk_level with the standard tests exchanged: < 20 and <= 50.
get_risk_level_lipid_exchanged(percentile, mk) ==
    IF mk = "lpa"
    THEN IF RatLT(percentile, FromInt(75)) THEN <<"Low Risk", "normal">>
         ELSE IF RatLT(percentile, FromInt(90)) THEN <<"Moderate Risk", "off">>
         ELSE <<"High Risk", "inverse">>
    ELSE IF RatLT(percentile, FromInt(20)) THEN <<"Low Risk", "normal">>
         ELSE IF RatLE(percentile, FromInt(50)) THEN <<"Moderate Risk", "off">>
         ELSE <<"High Risk", "inverse">>

get_risk_level(percentile, mk) ==
    IF mk = "lpa"
    THEN IF RatLT(percentile, FromInt(75)) THEN <<"Low Risk", "normal">>
         ELSE IF RatLT(percentile, FromInt(90)) THEN <<"Moderate Risk", "off">>
         ELSE <<"High Risk", "inverse">>
    ELSE IF RatLE(percentile, FromInt(20)) THEN <<"Low Risk", "normal">>
         ELSE IF RatLT(percentile, FromInt(50)) THEN <<"Moderate Risk", "off">>
         ELSE <<"High Risk", "inverse">>

\* The metric cards: get_risk_level(<marker>_percentile) for the standard
\* markers, get_risk_level(lpa_percentile, "lpa") for Lp(a).
metric_risk(m, percentile) ==
    IF m = "lpa" THEN get_risk_level(percentile, "lpa")
                 ELSE get_risk_level(percentile, "lipid")

(***************************************************************************)
(* get_ordinal_suffix(num), which starts with num = int(round(num)).       *)
(* Python's round() rounds halves to the even neighbour.                   *)
(***************************************************************************)
PyRound(r) ==
    LET q == r.num \div r.den
        twice == 2 * (r.num - q * r.den)
    IN  IF twice < r.den THEN q
        ELSE IF twice > r.den THEN q + 1
        ELSE IF q % 2 = 0 THEN q ELSE q + 1

\* get_ordinal_suffix testing the number itself, not its last two digits,
\* for the teens.
get_ordinal_suffix_teens_unreduced(num) ==
    LET n == PyRound(num) IN
    IF 11 <= n /\ n <= 13 THEN "th"
    ELSE LET remainder == n % 10 IN
         IF remainder = 1 THEN "st"
         ELSE IF remainder = 2 THEN "nd"
         ELSE IF remainder = 3 THEN "rd"
         ELSE "th"

get_ordinal_suffix(num) ==
    LET n == PyRound(num) IN
    IF 11 <= (n % 100) /\ (n % 100) <= 13 THEN "th"
    ELSE LET remainder == n % 10 IN
         IF remainder = 1 THEN "st"
         ELSE IF remainder = 2 THEN "nd"
         ELSE IF remainder = 3 THEN "rd"
         ELSE "th"

(***************************************************************************)
(* map_percentile_to_position(percentile)                                  *)
(***************************************************************************)
\* map_percentile_to_position with the third segment using the second
\* segment's slope.
map_percentile_to_position_third_slope(percentile) ==
    IF RatLE(percentile, FromInt(75))
    THEN RatMul(percentile, RatDiv(FromInt(40), FromInt(75)))
    ELSE IF RatLE(percentile, FromInt(95))
    THEN RatAdd(FromInt(40),
                RatMul(RatSub(percentile, FromInt(75)), RatDiv(FromInt(30), FromInt(20))))
    ELSE RatAdd(FromInt(70),
                RatMul(RatSub(percentile, FromInt(95)), RatDiv(FromInt(30), FromInt(20))))

\* map_percentile_to_position with the second segment starting at 45.
map_percentile_to_position_second_base(percentile) ==
    IF RatLE(percentile, FromInt(75))
    THEN RatMul(percentile, RatDiv(FromInt(40), FromInt(75)))
    ELSE IF RatLE(percentile, FromInt(95))
    THEN RatAdd(FromInt(45),
                RatMul(RatSub(percentile, FromInt(75)), RatDiv(FromInt(30), FromInt(20))))
    ELSE RatAdd(FromInt(70),
                RatMul(RatSub(percentile, FromInt(95)), RatDiv(FromInt(30), FromInt(5))))

map_percentile_to_position(percentile) ==
    IF RatLE(percentile, FromInt(75))
    THEN RatMul(percentile, RatDiv(FromInt(40), FromInt(75)))
    ELSE IF RatLE(percentile, FromInt(95))
    THEN RatAdd(FromInt(40),
                RatMul(RatSub(percentile, FromInt(75)), RatDiv(FromInt(30), FromInt(20))))
    ELSE RatAdd(FromInt(70),
                RatMul(RatSub(percentile, FromInt(95)), RatDiv(FromInt(30), FromInt(5))))

\* The patient marker's x coordinate: create_standard_chart draws it at the
\* percentile itself, create_lpa_chart at the mapped position.
marker_position(m, percentile) ==
    IF m = "lpa" THEN map_percentile_to_position(percentile) ELSE percentile

(***************************************************************************)
(* The chart builders' own computations.  Each recomputes the patient's    *)
(* percentile from the value it is handed and derives its own risk text    *)
(* from it, without calling get_risk_level.                                *)
(***************************************************************************)
\* create_standard_chart(title, percentiles, <marker>_values, <marker>) and
\* create_lpa_chart("Lp(a)", lpa_percentiles, lpa_values, lpa): the local
\* patient_percentile.  create_lpa_chart ignores its two list parameters
\* here and reads the module-level lists, values first.
chart_patient_percentile(m, patient_value_arg) ==
    IF m = "lpa" THEN get_percentile(patient_value_arg, lpa_values, lpa_percentiles)
                 ELSE get_percentile(patient_value_arg, percentiles, RefValues(m))

\* create_standard_chart's risk text with the first test written < 20.
create_standard_chart_risk_text_lt(percentile) ==
    IF RatLT(percentile, FromInt(20)) THEN "Low Risk"
    ELSE IF RatLT(percentile, FromInt(50)) THEN "Moderate Risk"
    ELSE "High Risk"

\* create_standard_chart: risk_text for the annotation.
create_standard_chart_risk_text(percentile) ==
    IF RatLE(percentile, FromInt(20)) THEN "Low Risk"
    ELSE IF RatLT(percentile, FromInt(50)) THEN "Moderate Risk"
    ELSE "High Risk"

\* create_lpa_chart: risk_text for the annotation.
create_lpa_chart_risk_text(percentile) ==
    IF RatLT(percentile, FromInt(75)) THEN "Low Risk"
    ELSE IF RatLT(percentile, FromInt(90)) THEN "Moderate Risk"
    ELSE "High Risk"

\* The risk text of the chart drawn for marker m.
chart_risk(m, percentile) ==
    IF m = "lpa" THEN create_lpa_chart_risk_text(percentile)
                 ELSE create_standard_chart_risk_text(percentile)

(***************************************************************************)
(* create_export_chart: the nested map_percentile(p) of the Lp(a) branch   *)
(* and the patient marker's x coordinate.                                  *)
(***************************************************************************)
\* map_percentile with the first segment's slope written 40/70.
map_percentile_first_slope(p) ==
    IF RatLE(p, FromInt(75))
    THEN RatMul(p, RatDiv(FromInt(40), FromInt(70)))
    ELSE IF RatLE(p, FromInt(95))
    THEN RatAdd(FromInt(40),
                RatMul(RatSub(p, FromInt(75)), RatDiv(FromInt(30), FromInt(20))))
    ELSE RatAdd(FromInt(70),
                RatMul(RatSub(p, FromInt(95)), RatDiv(FromInt(30), FromInt(5))))

map_percentile(p) ==
    IF RatLE(p, FromInt(75))
    THEN RatMul(p, RatDiv(FromInt(40), FromInt(75)))
    ELSE IF RatLE(p, FromInt(95))
    THEN RatAdd(FromInt(40),
                RatMul(RatSub(p, FromInt(75)), RatDiv(FromInt(30), FromInt(20))))
    ELSE RatAdd(FromInt(70),
                RatMul(RatSub(p, FromInt(95)), RatDiv(FromInt(30), FromInt(5))))

\* The key percentiles create_export_chart labels on the Lp(a) chart.
export_lpa_key_percentiles == <<0, 75, 80, 90, 95, 98, 100>>

\* The patient marker drawn by create_export_chart(title, ..., True, value):
\* patient_percentile as in the on-screen builders, then map_percentile of
\* it on the Lp(a) chart and the percentile itself on the others.
export_patient_percentile(m, patient_value_arg) ==
    IF m = "lpa" THEN get_percentile(patient_value_arg, lpa_values, lpa_percentiles)
                 ELSE get_percentile(patient_value_arg, percentiles, RefValues(m))

export_patient_pos(m, percentile) ==
    IF m = "lpa" THEN map_percentile(percentile) ELSE percentile

(***************************************************************************)
(* What the chart builders do to the lists they are handed.  They read     *)
(* them (np.interp, index, slices, unpacking into new lists) and append    *)
(* only to their local key_values.                                         *)
(***************************************************************************)
\* create_standard_chart padding the percentile list it was handed in place
\* (insert(0, min(1, ...)) and append(max(99, ...))) instead of building a
\* new list.
create_standard_chart_lists_in_place(t) ==
    [t EXCEPT !.percentiles = <<1>> \o @ \o <<99>>]

create_standard_chart_lists(t) == t

create_lpa_chart_lists(t) == t

create_export_chart_lists(t) == t

\* The lists after one run of the script: assigned at the top, then handed
\* to the chart builders.
ScriptLists ==
    create_export_chart_lists(
        create_lpa_chart_lists(create_standard_chart_lists(ReferenceTables)))

\* The thresholds of the "Lp(a) Interpretation" text of the second tab, as
\* <<percentile, mg/dL>>.
lpa_interpretation_text ==
    <<<<75, 47>>, <<80, 60>>, <<90, 90>>, <<95, 116>>, <<99, 180>>>>

(***************************************************************************)
(* The application: one run of the script for the marker whose widget was  *)
(* changed.                                                                *)
(***************************************************************************)
\* What one run of the script computes for marker m from widget value i:
\* <marker>_percentile and the metric card, the on-screen chart's own
\* percentile, risk text and marker position, and the marker position on the
\* combined export.  The script is deterministic, so the runs are tabulated
\* once.
ScriptRun ==
    [m \in Markers |->
        [i \in min_value(m)..max_value(m) |->
            LET percentile        == marker_percentile(m, FromInt(i))
                chart_percentile  == chart_patient_percentile(m, FromInt(i))
                export_percentile == export_patient_percentile(m, FromInt(i))
            IN  [percentile |-> percentile,
                 risk       |-> metric_risk(m, percentile),
                 int        |-> PyRound(percentile),
                 suffix     |-> get_ordinal_suffix(FromInt(PyRound(percentile))),
                 position   |-> marker_position(m, chart_percentile),
                 chart_risk |-> chart_risk(m, chart_percentile),
                 export_pos |-> export_patient_pos(m, export_percentile)]]]

\* One run of the script, seen from marker m, with m's widget holding i.
Rerun(m, i) ==
    /\ patient_value' = FromInt(i)
    /\ patient_percentile' = ScriptRun[m][i].percentile
    /\ risk_text' = ScriptRun[m][i].risk[1]
    /\ risk_color' = ScriptRun[m][i].risk[2]
    /\ patient_percentile_int' = ScriptRun[m][i].int
    /\ suffix' = ScriptRun[m][i].suffix
    /\ patient_position' = ScriptRun[m][i].position
    /\ chart_risk_text' = ScriptRun[m][i].chart_risk
    /\ patient_pos' = ScriptRun[m][i].export_pos
    /\ tables' = ScriptLists
    /\ UNCHANGED trip

\* First run of the script: every widget holds its default.
Init ==
    \E m \in Markers :
        /\ marker = m
        /\ patient_value = FromInt(default_value(m))
        /\ patient_percentile = ScriptRun[m][default_value(m)].percentile
        /\ risk_text = ScriptRun[m][default_value(m)].risk[1]
        /\ risk_color = ScriptRun[m][default_value(m)].risk[2]
        /\ patient_percentile_int = ScriptRun[m][default_value(m)].int
        /\ suffix = ScriptRun[m][default_value(m)].suffix
        /\ patient_position = ScriptRun[m][default_value(m)].position
        /\ chart_risk_text = ScriptRun[m][default_value(m)].chart_risk
        /\ patient_pos = ScriptRun[m][default_value(m)].export_pos
        /\ tables = ScriptLists
        /\ NoTrip

\* The user changes a widget; the script runs again.
ChangeApoB ==
    \E i \in min_value("apoB")..max_value("apoB") :
        /\ marker' = "apoB"
        /\ Rerun("apoB", i)

ChangeNonHDL ==
    \E i \in min_value("nonHDL")..max_value("nonHDL") :
        /\ marker' = "nonHDL"
        /\ Rerun("nonHDL", i)

ChangeLDL ==
    \E i \in min_value("LDL")..max_value("LDL") :
        /\ marker' = "LDL"
        /\ Rerun("LDL", i)

ChangeLpa ==
    \E i \in min_value("lpa")..max_value("lpa") :
        /\ marker' = "lpa"
        /\ Rerun("lpa", i)

Next == ChangeApoB \/ ChangeNonHDL \/ ChangeLDL \/ ChangeLpa

Spec == Init /\ [][Next]_vars

(***************************************************************************)
(* get_percentile as a pure function of a measurement and a reference      *)
(* table (P, V) = (RefPercentiles(m), RefValues(m)), called as             *)
(* get_percentile(v, P, V).                                                *)
(***************************************************************************)
MeasurementIndex(m) == (min_value(m) * Resolution)..(max_value(m) * Resolution)

\* get_percentile(k / Resolution, P, V) and get_risk_level of the result,
\* tabulated once per table.
FunctionCall ==
    [m \in Markers |->
        [k \in MeasurementIndex(m) |->
            LET percentile == get_percentile(Rat(k, Resolution),
                                             RefPercentiles(m), RefValues(m))
            IN  [percentile |-> percentile,
                 risk       |-> metric_risk(m, percentile),
                 int        |-> PyRound(percentile),
                 suffix     |-> get_ordinal_suffix(FromInt(PyRound(percentile))),
                 position   |-> marker_position(m, percentile),
                 chart_risk |-> chart_risk(m, percentile),
                 export_pos |-> export_patient_pos(m, percentile)]]]

\* The table is drawn once; the measurement is drawn at every call.
InitFn ==
    \E m \in Markers :
        /\ marker = m
        /\ patient_value = Rat(default_value(m) * Resolution, Resolution)
        /\ patient_percentile = FunctionCall[m][default_value(m) * Resolution].percentile
        /\ risk_text = FunctionCall[m][default_value(m) * Resolution].risk[1]
        /\ risk_color = FunctionCall[m][default_value(m) * Resolution].risk[2]
        /\ patient_percentile_int = FunctionCall[m][default_value(m) * Resolution].int
        /\ suffix = FunctionCall[m][default_value(m) * Resolution].suffix
        /\ patient_position = FunctionCall[m][default_value(m) * Resolution].position
        /\ chart_risk_text = FunctionCall[m][default_value(m) * Resolution].chart_risk
        /\ patient_pos = FunctionCall[m][default_value(m) * Resolution].export_pos
        /\ tables = ReferenceTables
        /\ NoTrip

CallGetPercentile ==
    \E k \in MeasurementIndex(marker) :
        /\ UNCHANGED marker
        /\ patient_value' = Rat(k, Resolution)
        /\ patient_percentile' = FunctionCall[marker][k].percentile
        /\ risk_text' = FunctionCall[marker][k].risk[1]
        /\ risk_color' = FunctionCall[marker][k].risk[2]
        /\ patient_percentile_int' = FunctionCall[marker][k].int
        /\ suffix' = FunctionCall[marker][k].suffix
        /\ patient_position' = FunctionCall[marker][k].position
        /\ chart_risk_text' = FunctionCall[marker][k].chart_risk
        /\ patient_pos' = FunctionCall[marker][k].export_pos
        /\ UNCHANGED tables
        /\ UNCHANGED trip

NextFn == CallGetPercentile

SpecFn == InitFn /\ [][NextFn]_vars


(***************************************************************************)
(* get_risk_level, map_percentile_to_position and get_ordinal_suffix as    *)
(* pure functions of a number p = k / PctResolution in [0, MaxNum].  No    *)
(* measurement is involved: patient_value keeps the widget's default.      *)
(***************************************************************************)
PercentileIndex == 0..(MaxNum * PctResolution)

PercentileCall ==
    [m \in Markers |->
        [k \in PercentileIndex |->
            LET p == Rat(k, PctResolution)
            IN  [risk       |-> metric_risk(m, p),
                 int        |-> PyRound(p),
                 suffix     |-> get_ordinal_suffix(p),
                 position   |-> map_percentile_to_position(p),
                 chart_risk |-> chart_risk(m, p),
                 export_pos |-> map_percentile(p)]]]

\* The marker (which selects get_risk_level's bands) is drawn once; the
\* number is drawn at every call.
InitPct ==
    \E m \in Markers :
        /\ marker = m
        /\ patient_value = FromInt(default_value(m))
        /\ patient_percentile = Rat(0, PctResolution)
        /\ risk_text = PercentileCall[m][0].risk[1]
        /\ risk_color = PercentileCall[m][0].risk[2]
        /\ patient_percentile_int = PercentileCall[m][0].int
        /\ suffix = PercentileCall[m][0].suffix
        /\ patient_position = PercentileCall[m][0].position
        /\ chart_risk_text = PercentileCall[m][0].chart_risk
        /\ patient_pos = PercentileCall[m][0].export_pos
        /\ tables = ReferenceTables
        /\ NoTrip

CallWithPercentile ==
    \E k \in PercentileIndex :
        /\ UNCHANGED <<marker, patient_value, tables>>
        /\ UNCHANGED trip
        /\ patient_percentile' = Rat(k, PctResolution)
        /\ risk_text' = PercentileCall[marker][k].risk[1]
        /\ risk_color' = PercentileCall[marker][k].risk[2]
        /\ patient_percentile_int' = PercentileCall[marker][k].int
        /\ suffix' = PercentileCall[marker][k].suffix
        /\ patient_position' = PercentileCall[marker][k].position
        /\ chart_risk_text' = PercentileCall[marker][k].chart_risk
        /\ patient_pos' = PercentileCall[marker][k].export_pos

NextPct == CallWithPercentile

SpecPct == InitPct /\ [][NextPct]_vars

(***************************************************************************)
(* IEEE-754 binary64 arithmetic on the non-negative numbers np.interp      *)
(* handles here, for the one place where rounding decides the answer: the  *)
(* comparison of a result of two passes of get_percentile with the number  *)
(* the first pass started from.  A double is [m, e] standing for m * 2^e,  *)
(* where m is a natural number of at most 53 significant bits, held as a   *)
(* sequence of limbs in base 2^15, least significant first, without        *)
(* leading zero limbs (zero is the empty sequence).  Every operation       *)
(* computes the exact result and rounds it once, ties to even.             *)
(***************************************************************************)
Base == 32768

LimbBits == 15

MantissaBits == 53

RECURSIVE Pow2(_)
Pow2(n) == IF n = 0 THEN 1 ELSE 2 * Pow2(n - 1)

RECURSIVE BigTrim(_)
BigTrim(a) ==
    IF Len(a) > 0 /\ a[Len(a)] = 0 THEN BigTrim(SubSeq(a, 1, Len(a) - 1)) ELSE a

RECURSIVE BigFromInt(_)
BigFromInt(n) == IF n = 0 THEN <<>> ELSE <<n % Base>> \o BigFromInt(n \div Base)

Limb(a, i) == IF i <= Len(a) THEN a[i] ELSE 0

RECURSIVE BigAddFrom(_, _, _, _)
BigAddFrom(a, b, i, carry) ==
    IF i > Len(a) /\ i > Len(b)
    THEN IF carry = 0 THEN <<>> ELSE <<carry>>
    ELSE LET s == Limb(a, i) + Limb(b, i) + carry
         IN  <<s % Base>> \o BigAddFrom(a, b, i + 1, s \div Base)

BigAdd(a, b) == BigAddFrom(a, b, 1, 0)

\* a - b for a >= b.
RECURSIVE BigSubFrom(_, _, _, _)
BigSubFrom(a, b, i, borrow) ==
    IF i > Len(a) THEN <<>>
    ELSE LET s == Limb(a, i) - Limb(b, i) - borrow
         IN  IF s < 0 THEN <<s + Base>> \o BigSubFrom(a, b, i + 1, 1)
                      ELSE <<s>> \o BigSubFrom(a, b, i + 1, 0)

BigSub(a, b) == BigTrim(BigSubFrom(a, b, 1, 0))

\* -1, 0 or 1 as a < b, a = b or a > b.
RECURSIVE BigCmpFrom(_, _, _)
BigCmpFrom(a, b, i) ==
    IF i = 0 THEN 0
    ELSE IF a[i] < b[i] THEN -1
    ELSE IF a[i] > b[i] THEN 1
    ELSE BigCmpFrom(a, b, i - 1)

BigCmp(a, b) ==
    IF Len(a) < Len(b) THEN -1
    ELSE IF Len(a) > Len(b) THEN 1
    ELSE BigCmpFrom(a, b, Len(a))

\* a * k for 0 <= k < Base.
RECURSIVE BigMulSmallFrom(_, _, _, _)
BigMulSmallFrom(a, k, i, carry) ==
    IF i > Len(a)
    THEN IF carry = 0 THEN <<>> ELSE <<carry>>
    ELSE LET s == a[i] * k + carry
         IN  <<s % Base>> \o BigMulSmallFrom(a, k, i + 1, s \div Base)

BigMulSmall(a, k) == IF k = 0 THEN <<>> ELSE BigMulSmallFrom(a, k, 1, 0)

Zeros(n) == [i \in 1..n |-> 0]

RECURSIVE BigMulFrom(_, _, _)
BigMulFrom(a, b, i) ==
    IF i > Len(b) THEN <<>>
    ELSE BigAdd(IF b[i] = 0 THEN <<>> ELSE Zeros(i - 1) \o BigMulSmall(a, b[i]),
                BigMulFrom(a, b, i + 1))

BigMul(a, b) == IF Len(a) = 0 THEN <<>> ELSE BigMulFrom(a, b, 1)

\* a * 2^bits.
BigShl(a, bits) ==
    IF Len(a) = 0 THEN <<>>
    ELSE Zeros(bits \div LimbBits) \o BigMulSmall(a, Pow2(bits % LimbBits))

\* floor(a / k) for 0 < k < 2 * Base.
RECURSIVE BigDivSmallFrom(_, _, _, _)
BigDivSmallFrom(a, k, i, rem) ==
    IF i = 0 THEN <<>>
    ELSE LET cur == rem * Base + a[i]
         IN  BigDivSmallFrom(a, k, i - 1, cur % k) \o <<cur \div k>>

BigDivSmall(a, k) == BigTrim(BigDivSmallFrom(a, k, Len(a), 0))

\* floor(a / 2^bits).
BigShr(a, bits) ==
    LET drop == bits \div LimbBits
    IN  IF drop >= Len(a) THEN <<>>
        ELSE BigDivSmall(SubSeq(a, drop + 1, Len(a)), Pow2(bits % LimbBits))

RECURSIVE IntBitLen(_)
IntBitLen(n) == IF n = 0 THEN 0 ELSE 1 + IntBitLen(n \div 2)

BigBitLen(a) ==
    IF Len(a) = 0 THEN 0 ELSE LimbBits * (Len(a) - 1) + IntBitLen(a[Len(a)])

BigOdd(a) == Len(a) > 0 /\ a[1] % 2 = 1

\* n * 2^e (plus a non-zero fraction of the last place of n when sticky)
\* rounded to MantissaBits significant bits, ties to even.
DblRound(n, e, sticky) ==
    LET len == BigBitLen(n)
    IN  IF len <= MantissaBits THEN [m |-> n, e |-> e]
        ELSE LET sh   == len - MantissaBits
                 q    == BigShr(n, sh)
                 r    == BigSub(n, BigShl(q, sh))
                 half == BigShl(<<1>>, sh - 1)
                 cmp  == BigCmp(r, half)
                 up   == cmp > 0 \/ (cmp = 0 /\ (sticky \/ BigOdd(q)))
             IN  [m |-> IF up THEN BigAdd(q, <<1>>) ELSE q, e |-> e + sh]

DblFromInt(i) == [m |-> BigFromInt(i), e |-> 0]

\* float(a) / float(b) for integers a >= 0 and 0 < b < 2 * Base.
DivisionBits == 75

DblDivInt(a, b) ==
    LET n == BigShl(BigFromInt(a), DivisionBits)
        q == BigDivSmall(n, b)
    IN  DblRound(q, -DivisionBits, BigCmp(BigMulSmall(q, b), n) # 0)

Min(i, j) == IF i <= j THEN i ELSE j

DblMul(x, y) == DblRound(BigMul(x.m, y.m), x.e + y.e, FALSE)

DblAdd(x, y) ==
    LET e == Min(x.e, y.e)
    IN  DblRound(BigAdd(BigShl(x.m, x.e - e), BigShl(y.m, y.e - e)), e, FALSE)

\* x - y for x >= y.
DblSub(x, y) ==
    LET e == Min(x.e, y.e)
    IN  DblRound(BigSub(BigShl(x.m, x.e - e), BigShl(y.m, y.e - e)), e, FALSE)

DblCmp(x, y) ==
    LET e == Min(x.e, y.e)
    IN  BigCmp(BigShl(x.m, x.e - e), BigShl(y.m, y.e - e))

DblEq(x, y) == DblCmp(x, y) = 0

DblLE(x, y) == DblCmp(x, y) <= 0

DblLT(x, y) == DblCmp(x, y) < 0

\* x * y + z rounded once (a fused multiply-add).
DblFma(x, y, z) ==
    LET e == Min(x.e + y.e, z.e)
    IN  DblRound(BigAdd(BigShl(BigMul(x.m, y.m), x.e + y.e - e),
                        BigShl(z.m, z.e - e)), e, FALSE)

\* |x - y| <= 2^(-bits).
DblWithin(x, y, bits) ==
    LET e    == Min(x.e, y.e)
        a    == BigShl(x.m, x.e - e)
        b    == BigShl(y.m, y.e - e)
        dist == IF BigCmp(a, b) >= 0 THEN BigSub(a, b) ELSE BigSub(b, a)
    IN  IF e + bits >= 0 THEN BigCmp(BigShl(dist, e + bits), <<1>>) <= 0
                         ELSE BigCmp(dist, BigShl(<<1>>, -(e + bits))) <= 0

(***************************************************************************)
(* np.interp and get_percentile in double arithmetic.  np.interp computes  *)
(* slope * (x - xp[j]) + fp[j] in C; whether the multiplication and the    *)
(* addition are rounded separately or fused into one rounding is the       *)
(* build's choice (fma).                                                   *)
(***************************************************************************)
SearchIntervalDouble(x, xp) ==
    CHOOSE j \in 1..Len(xp) :
        /\ DblLE(DblFromInt(xp[j]), x)
        /\ (j < Len(xp) => DblLT(x, DblFromInt(xp[j + 1])))

\* InterpDouble without the interpolation: the sample at the interval's
\* left end.
InterpDouble_left_sample(x, xp, fp, fma) ==
    IF DblLT(DblFromInt(xp[Len(xp)]), x) THEN DblFromInt(fp[Len(fp)])
    ELSE IF DblLT(x, DblFromInt(xp[1])) THEN DblFromInt(fp[1])
    ELSE DblFromInt(fp[SearchIntervalDouble(x, xp)])

InterpDouble(x, xp, fp, fma) ==
    IF DblLT(DblFromInt(xp[Len(xp)]), x) THEN DblFromInt(fp[Len(fp)])
    ELSE IF DblLT(x, DblFromInt(xp[1])) THEN DblFromInt(fp[1])
    ELSE LET j == SearchIntervalDouble(x, xp) IN
         IF j = Len(xp) THEN DblFromInt(fp[j])
         ELSE IF DblEq(x, DblFromInt(xp[j])) THEN DblFromInt(fp[j])
         ELSE LET slope == DblDivInt(fp[j + 1] - fp[j], xp[j + 1] - xp[j])
                  dx    == DblSub(x, DblFromInt(xp[j]))
              IN  IF fma THEN DblFma(slope, dx, DblFromInt(fp[j]))
                         ELSE DblAdd(DblMul(slope, dx), DblFromInt(fp[j]))

get_percentile_double(value, perc_array, value_array, fma) ==
    IF DblLE(value, DblFromInt(value_array[1])) THEN DblFromInt(perc_array[1])
    ELSE IF DblLE(DblFromInt(value_array[Len(value_array)]), value)
         THEN DblFromInt(perc_array[Len(perc_array)])
    ELSE InterpDouble(value, value_array, perc_array, fma)

(***************************************************************************)
(* Round trips through get_percentile on a reference table (P, V): from a  *)
(* measurement v in [V[first], V[last]] to get_percentile(v, P, V) and     *)
(* back with get_percentile(p, V, P), and from a percentile p in           *)
(* [P[first], P[last]] to get_percentile(p, V, P) and back with            *)
(* get_percentile(v, P, V).  Measurements are the multiples of             *)
(* 1/Resolution, percentiles the multiples of 1/PctResolution.  The        *)
(* number in hand is carried exactly (trip_exact) and as the double the    *)
(* code holds (trip_double); patient_value and patient_percentile record   *)
(* the measurement and the percentile of the trip, 0 before they are       *)
(* known.                                                                  *)
(***************************************************************************)
ValueTripIndex(m) ==
    (RefValues(m)[1] * Resolution)..(RefValues(m)[Len(RefValues(m))] * Resolution)

PercentileTripIndex(m) ==
    (RefPercentiles(m)[1] * PctResolution)
        ..(RefPercentiles(m)[Len(RefPercentiles(m))] * PctResolution)

\* The starts of the round trips: a table, a build, a direction and a number
\* of that direction within the table's range.
TripStarts ==
    {[m |-> m, f |-> f, d |-> "value", r |-> Rat(k, Resolution)] :
        m \in Markers, f \in BOOLEAN, k \in 0..(max_value("lpa") * Resolution)}
    \cup
    {[m |-> m, f |-> f, d |-> "percentile", r |-> Rat(k, PctResolution)] :
        m \in Markers, f \in BOOLEAN, k \in 0..(100 * PctResolution)}

\* The table, the build and the start are drawn once.  The display is what
\* the first run of the script computed; a round trip leaves it alone.
InitTrip ==
    \E s \in TripStarts :
        /\ s.r.num \in (IF s.d = "value" THEN ValueTripIndex(s.m)
                                          ELSE PercentileTripIndex(s.m))
        /\ marker = s.m
        /\ fused = s.f
        /\ direction = s.d
        /\ stage = "start"
        /\ patient_value = IF s.d = "value" THEN s.r ELSE FromInt(0)
        /\ patient_percentile = IF s.d = "percentile" THEN s.r ELSE FromInt(0)
        /\ trip_exact = s.r
        /\ trip_double = DblDivInt(s.r.num, s.r.den)
        /\ risk_text = ScriptRun[s.m][default_value(s.m)].risk[1]
        /\ risk_color = ScriptRun[s.m][default_value(s.m)].risk[2]
        /\ patient_percentile_int = ScriptRun[s.m][default_value(s.m)].int
        /\ suffix = ScriptRun[s.m][default_value(s.m)].suffix
        /\ patient_position = ScriptRun[s.m][default_value(s.m)].position
        /\ chart_risk_text = ScriptRun[s.m][default_value(s.m)].chart_risk
        /\ patient_pos = ScriptRun[s.m][default_value(s.m)].export_pos
        /\ tables = ScriptLists

\* get_percentile(v, P, V) applied to the number in hand: the first pass of
\* a trip from a measurement, the second of a trip from a percentile.
MapValueToPercentile ==
    /\ <<direction, stage>> \in {<<"value", "start">>, <<"percentile", "there">>}
    /\ trip_exact' = get_percentile(trip_exact, RefPercentiles(marker),
                                    RefValues(marker))
    /\ trip_double' = get_percentile_double(trip_double, RefPercentiles(marker),
                                            RefValues(marker), fused)
    /\ stage' = IF stage = "start" THEN "there" ELSE "back"
    /\ patient_percentile' = IF stage = "start" THEN trip_exact'
                                                ELSE patient_percentile
    /\ UNCHANGED <<marker, direction, fused, patient_value, risk_text, risk_color,
                   patient_percentile_int, suffix, patient_position,
                   chart_risk_text, patient_pos, tables>>

\* get_percentile(p, V, P), the arguments swapped, applied to the number in
\* hand: the first pass of a trip from a percentile, the second of a trip
\* from a measurement.
MapPercentileToValue ==
    /\ <<direction, stage>> \in {<<"percentile", "start">>, <<"value", "there">>}
    /\ trip_exact' = get_percentile(trip_exact, RefValues(marker),
                                    RefPercentiles(marker))
    /\ trip_double' = get_percentile_double(trip_double, RefValues(marker),
                                            RefPercentiles(marker), fused)
    /\ stage' = IF stage = "start" THEN "there" ELSE "back"
    /\ patient_value' = IF stage = "start" THEN trip_exact' ELSE patient_value
    /\ UNCHANGED <<marker, direction, fused, patient_percentile, risk_text,
                   risk_color, patient_percentile_int, suffix, patient_position,
                   chart_risk_text, patient_pos, tables>>

NextTrip == MapValueToPercentile \/ MapPercentileToValue

SpecTrip == InitTrip /\ [][NextTrip]_vars

(***************************************************************************)
(* Properties of get_percentile(v, P, V) on the four reference tables,     *)
(* checked under SpecFn.  P and V are the lists of the table in use.       *)
(***************************************************************************)
P == RefPercentiles(marker)

V == RefValues(marker)

\* C1: on each reference table (P, V), a measurement at or below V[first]
\* gets exactly P[first], the table's minimum percentile.
C1_ClampLow ==
    RatLE(patient_value, FromInt(V[1])) => RatEq(patient_percentile, FromInt(P[1]))

\* A measurement strictly below the Lp(a) table's first value, answered 75.
C1_Witness ==
    /\ marker = "lpa"
    /\ RatLT(patient_value, FromInt(lpa_values[1]))
    /\ RatEq(patient_percentile, FromInt(75))

\* C2: on each reference table (P, V), a measurement at or above V[last]
\* gets exactly P[last], the table's maximum percentile.
C2_ClampHigh ==
    RatLE(FromInt(V[Len(V)]), patient_value)
        => RatEq(patient_percentile, FromInt(P[Len(P)]))

\* A measurement strictly above the ApoB table's last value, answered 99.
C2_Witness ==
    /\ marker = "apoB"
    /\ RatLT(FromInt(apoB_values[Len(apoB_values)]), patient_value)
    /\ RatEq(patient_percentile, FromInt(99))

\* C3: monotonicity: when get_percentile is called again on the same table
\* with a larger measurement, the percentile does not decrease (and with a
\* smaller one it does not increase).
C3_Monotone ==
    [][(marker' = marker /\ RatLT(patient_value, patient_value'))
          => RatLE(patient_percentile, patient_percentile')]_vars

\* A measurement strictly inside a table's value range whose percentile is
\* strictly inside the percentile range: calls from it go to smaller and to
\* larger measurements, in range and out of range.
C3_Witness ==
    /\ RatLT(FromInt(V[1]), patient_value)
    /\ RatLT(patient_value, FromInt(V[Len(V)]))
    /\ RatLT(FromInt(P[1]), patient_percentile)
    /\ RatLT(patient_percentile, FromInt(P[Len(P)]))
    /\ \A i \in 1..Len(V) : ~RatEq(patient_value, FromInt(V[i]))

\* C4: on each reference table, every measurement, in range or not, gets a
\* percentile inside [P[first], P[last]]; evaluating get_percentile never
\* fails (TLC reports a failed evaluation as an error).
C4_InRange ==
    /\ patient_percentile.den > 0
    /\ RatLE(FromInt(P[1]), patient_percentile)
    /\ RatLE(patient_percentile, FromInt(P[Len(P)]))

\* An out-of-range measurement (above the Lp(a) table) clamped to 99.
C4_Witness ==
    /\ marker = "lpa"
    /\ RatEq(patient_value, FromInt(250))
    /\ RatEq(patient_percentile, FromInt(99))

(***************************************************************************)
(* Properties of the application's own runs, checked under Spec.           *)
(***************************************************************************)
\* C5: a Lp(a) measurement equal to a row's value lpa_values[i] (47, 60,
\* 90, 116, 180, 245) yields that row's percentile lpa_percentiles[i] (75,
\* 80, 90, 95, 98, 99) as the application's lpa_percentile.
C5_LpaTableHit ==
    \A i \in 1..Len(lpa_values) :
        (marker = "lpa" /\ RatEq(patient_value, FromInt(lpa_values[i])))
            => RatEq(patient_percentile, FromInt(lpa_percentiles[i]))

\* C6: for every Lp(a) measurement the sidebar allows, lpa_percentile lies in
\* the Lp(a) table's percentile range [75, 99], so it never exceeds 100.
C6_LpaPercentileRange ==
    marker = "lpa"
        => /\ RatLE(FromInt(lpa_percentiles[1]), patient_percentile)
           /\ RatLE(patient_percentile, FromInt(lpa_percentiles[Len(lpa_percentiles)]))
           /\ RatLE(patient_percentile, FromInt(100))

\* C7: the Lp(a) risk level follows the measurement's position in the Lp(a)
\* table: Low Risk below 47 mg/dL (the 75th-percentile value), Moderate Risk
\* from 47 up to but not including 90 mg/dL (the 90th-percentile value), High
\* Risk from 90 mg/dL on.
C7_LpaRiskBands ==
    marker = "lpa"
        => risk_text =
              IF RatLT(patient_value, FromInt(47)) THEN "Low Risk"
              ELSE IF RatLT(patient_value, FromInt(90)) THEN "Moderate Risk"
              ELSE "High Risk"

\* C8: table hit: for the three standard tables, a measurement equal to a
\* row's value gets exactly that row's percentile; ApoB 90 gets 50.
C8_TableHit ==
    /\ \A i \in 1..Len(percentiles) :
          (marker \in StandardMarkers /\ RatEq(patient_value, FromInt(V[i])))
              => RatEq(patient_percentile, FromInt(percentiles[i]))
    /\ (marker = "apoB" /\ RatEq(patient_value, FromInt(90)))
          => RatEq(patient_percentile, FromInt(50))

\* An inner row of a standard table hit after a widget change: LDL-C 143
\* (not the default) answered 80.
C8_Witness ==
    /\ marker = "LDL"
    /\ RatEq(patient_value, FromInt(143))
    /\ RatEq(patient_percentile, FromInt(80))

\* C9 (under SpecFn): on each reference table, a measurement v strictly
\* between V[first] and V[last], in the row i with V[i] <= v <= V[i+1], gets
\* P[i] + (v - V[i]) * (P[i+1] - P[i]) / (V[i+1] - V[i]), which lies between
\* P[i] and P[i+1].
C9_Interpolation ==
    \A i \in 1..(Len(V) - 1) :
        ( /\ RatLT(FromInt(V[1]), patient_value)
          /\ RatLT(patient_value, FromInt(V[Len(V)]))
          /\ RatLE(FromInt(V[i]), patient_value)
          /\ RatLE(patient_value, FromInt(V[i + 1])) )
        => /\ RatEq(patient_percentile,
                    RatAdd(FromInt(P[i]),
                           RatDiv(RatMul(RatSub(patient_value, FromInt(V[i])),
                                         FromInt(P[i + 1] - P[i])),
                                  FromInt(V[i + 1] - V[i]))))
           /\ RatLE(FromInt(P[i]), patient_percentile)
           /\ RatLE(patient_percentile, FromInt(P[i + 1]))

\* A measurement strictly inside a row of the Lp(a) table: 100 mg/dL, in the
\* row (90, 116), answered 90 + 10 * 5 / 26.
C9_Witness ==
    /\ marker = "lpa"
    /\ RatEq(patient_value, FromInt(100))
    /\ RatEq(patient_percentile, Rat(90 * 26 + 50, 26))
    /\ RatLT(FromInt(90), patient_percentile)
    /\ RatLT(patient_percentile, FromInt(95))

\* C10, as stated: ApoB 100 gets the interpolation between the rows (84, 40)
\* and (90, 50), a percentile of about 45.7 (here: within 0.05 of 45.7).
C10_AsStated ==
    (marker = "apoB" /\ RatEq(patient_value, FromInt(100)))
        => /\ RatLE(FromInt(40), patient_percentile)
           /\ RatLE(patient_percentile, FromInt(50))
           /\ RatLE(Rat(4565, 100), patient_percentile)
           /\ RatLE(patient_percentile, Rat(4575, 100))

\* C10, amended: ApoB 100 lies between the value breakpoints 97 and 104 and
\* gets the interpolation between the rows (97, 60) and (104, 70):
\* 60 + 3 * 10 / 7 = 450 / 7, about 64.3.
C10_Amended ==
    (marker = "apoB" /\ RatEq(patient_value, FromInt(100)))
        => /\ RatEq(patient_percentile, Rat(60 * 7 + 3 * 10, 7))
           /\ RatLT(Rat(642, 10), patient_percentile)
           /\ RatLT(patient_percentile, Rat(644, 10))

\* The application run with ApoB = 100, answered strictly between 60 and 70.
C10_Witness ==
    /\ marker = "apoB"
    /\ RatEq(patient_value, FromInt(100))
    /\ RatLT(FromInt(60), patient_percentile)
    /\ RatLT(patient_percentile, FromInt(70))

(***************************************************************************)
(* Properties of the functions of a percentile, checked under SpecPct.     *)
(***************************************************************************)
\* C11: map_percentile_to_position maps 75 to 40, 95 to 70 and 99 to 94.
C11_PositionExamples ==
    /\ RatEq(patient_percentile, FromInt(75)) => RatEq(patient_position, FromInt(40))
    /\ RatEq(patient_percentile, FromInt(95)) => RatEq(patient_position, FromInt(70))
    /\ RatEq(patient_percentile, FromInt(99)) => RatEq(patient_position, FromInt(94))

\* Percentile 99, in the third segment, placed at 94.
C11_Witness ==
    /\ RatEq(patient_percentile, FromInt(99))
    /\ RatEq(patient_position, FromInt(94))

\* Between(a, x, b): a <= x <= b for integers a, b and a rational x.
Between(a, x, b) == RatLE(FromInt(a), x) /\ RatLE(x, FromInt(b))

\* C12: on [0, 100] map_percentile_to_position is non-decreasing, sends
\* [0,75] into [0,40], [75,95] into [40,70] and [95,100] into [70,100] with
\* the ends 0, 40, 70 and 100 attained at 0, 75, 95 and 100, and has no jump:
\* between two percentiles it rises by at most 6 (the steepest segment's
\* slope, 30/5) times their distance.  Stated of every call (the primed
\* state) and of every pair of successive calls.
C12_PositionShape ==
    [][ /\ Between(0, patient_percentile', 100) => Between(0, patient_position', 100)
        /\ Between(0, patient_percentile', 75) => Between(0, patient_position', 40)
        /\ Between(75, patient_percentile', 95) => Between(40, patient_position', 70)
        /\ Between(95, patient_percentile', 100) => Between(70, patient_position', 100)
        /\ RatEq(patient_percentile', FromInt(0)) => RatEq(patient_position', FromInt(0))
        /\ RatEq(patient_percentile', FromInt(75)) => RatEq(patient_position', FromInt(40))
        /\ RatEq(patient_percentile', FromInt(95)) => RatEq(patient_position', FromInt(70))
        /\ RatEq(patient_percentile', FromInt(100)) => RatEq(patient_position', FromInt(100))
        /\ ( /\ Between(0, patient_percentile, 100)
             /\ Between(0, patient_percentile', 100)
             /\ RatLT(patient_percentile, patient_percentile') )
           => /\ RatLE(patient_position, patient_position')
              /\ RatLE(RatSub(patient_position', patient_position),
                       RatMul(FromInt(6),
                              RatSub(patient_percentile', patient_percentile)))
      ]_vars

\* A percentile just above the breakpoint 75, placed just above 40: the
\* calls to and from it cross the breakpoint.
C12_Witness ==
    /\ RatLT(FromInt(75), patient_percentile)
    /\ RatLT(patient_percentile, FromInt(76))
    /\ RatLT(FromInt(40), patient_position)
    /\ RatLT(patient_position, FromInt(42))

RiskLabels == {"Low Risk", "Moderate Risk", "High Risk"}

\* C13: get_risk_level(p, "lpa") returns one of the three labels, with the
\* thresholds 75 and 90: Low Risk when p < 75, Moderate Risk when
\* 75 <= p < 90, High Risk when p >= 90.
C13_LpaBands ==
    marker = "lpa"
        => /\ risk_text \in RiskLabels
           /\ (risk_text = "Low Risk") <=> RatLT(patient_percentile, FromInt(75))
           /\ (risk_text = "Moderate Risk")
                 <=> ( /\ RatLE(FromInt(75), patient_percentile)
                       /\ RatLT(patient_percentile, FromInt(90)) )
           /\ (risk_text = "High Risk") <=> RatLE(FromInt(90), patient_percentile)

\* get_risk_level(75, "lpa"): the lower threshold itself is Moderate Risk.
C13_Witness ==
    /\ marker = "lpa"
    /\ RatEq(patient_percentile, FromInt(75))
    /\ risk_text = "Moderate Risk"

C15_ModerateAtFifty ==
    (marker \in StandardMarkers /\ RatEq(patient_percentile, FromInt(50)))
        => risk_text = "Moderate Risk"

(***************************************************************************)
(* Properties of the module-level lists, checked under Spec.               *)
(***************************************************************************)
StrictlyIncreasing(seq) == \A i \in 1..(Len(seq) - 1) : seq[i] < seq[i + 1]

\* C16: every reference table is strictly increasing in its percentiles and
\* in its values, with every percentile in [0, 100]; the three standard
\* tables share one 13-point percentile grid and hold 13 values each; the
\* Lp(a) table holds 6 percentiles, all in 75..99, and 6 values.
C16_TablesWellFormed ==
    /\ StrictlyIncreasing(tables.percentiles)
    /\ StrictlyIncreasing(tables.apoB_values)
    /\ StrictlyIncreasing(tables.nonHDL_values)
    /\ StrictlyIncreasing(tables.LDL_values)
    /\ StrictlyIncreasing(tables.lpa_percentiles)
    /\ StrictlyIncreasing(tables.lpa_values)
    /\ \A i \in 1..Len(tables.percentiles) : tables.percentiles[i] \in 0..100
    /\ \A i \in 1..Len(tables.lpa_percentiles) : tables.lpa_percentiles[i] \in 75..99
    /\ Len(tables.percentiles) = 13
    /\ Len(tables.apoB_values) = 13
    /\ Len(tables.nonHDL_values) = 13
    /\ Len(tables.LDL_values) = 13
    /\ Len(tables.lpa_percentiles) = 6
    /\ Len(tables.lpa_values) = 6

\* The lists as a run of the script leaves them after a widget change.
C16_Witness ==
    /\ marker = "LDL"
    /\ RatEq(patient_value, FromInt(131))
    /\ tables.LDL_values[9] = 131
    /\ tables.lpa_percentiles[1] = 75
    /\ tables.lpa_percentiles[6] = 99

\* C17: after any sequence of runs (each calling get_percentile,
\* get_risk_level, map_percentile_to_position and the chart builders) the
\* reference tables and the key-percentile lists still hold their initial
\* contents.
C17_TablesUnchanged ==
    /\ tables.percentiles = <<1, 5, 10, 20, 30, 40, 50, 60, 70, 80, 90, 95, 99>>
    /\ tables.apoB_values = <<41, 54, 61, 70, 77, 84, 90, 97, 104, 113, 125, 137, 160>>
    /\ tables.nonHDL_values = <<59, 79, 88, 103, 114, 125, 135, 145, 156, 170, 191, 208, 247>>
    /\ tables.LDL_values = <<45, 63, 72, 85, 95, 104, 112, 121, 131, 143, 161, 176, 211>>
    /\ tables.lpa_percentiles = <<75, 80, 90, 95, 98, 99>>
    /\ tables.lpa_values = <<47, 60, 90, 116, 180, 245>>
    /\ tables.std_key_percentiles = <<0, 5, 10, 20, 50, 75, 100>>
    /\ tables.lpa_key_percentiles = <<0, 75, 80, 90, 95, 98, 99, 100>>

\* A run after a widget change (Lp(a) set to 250) that has built the charts
\* and left the percentile grid as it was.
C17_Witness ==
    /\ marker = "lpa"
    /\ RatEq(patient_value, FromInt(250))
    /\ Len(tables.percentiles) = 13
    /\ tables.lpa_key_percentiles[8] = 100

\* C19: every threshold of the in-app Lp(a) interpretation text is a row of
\* the Lp(a) table: 75th = 47, 80th = 60, 90th = 90, 95th = 116 and
\* 99th = 180 mg/dL.
C19_TextMatchesTable ==
    \A e \in 1..Len(lpa_interpretation_text) :
        \E i \in 1..Len(tables.lpa_percentiles) :
            /\ tables.lpa_percentiles[i] = lpa_interpretation_text[e][1]
            /\ tables.lpa_values[i] = lpa_interpretation_text[e][2]

\* C20 (under SpecPct): for every non-negative integer n, get_ordinal_suffix
\* returns "th" when n mod 100 is 11, 12 or 13; otherwise "st", "nd", "rd"
\* when n mod 10 is 1, 2, 3; "th" in all other cases.
C20_OrdinalSuffix ==
    (patient_percentile.num % patient_percentile.den = 0)
        => LET n == patient_percentile.num \div patient_percentile.den IN
           suffix = IF (n % 100) \in {11, 12, 13} THEN "th"
                    ELSE IF n % 10 = 1 THEN "st"
                    ELSE IF n % 10 = 2 THEN "nd"
                    ELSE IF n % 10 = 3 THEN "rd"
                    ELSE "th"

\* A teen above 100: get_ordinal_suffix(112) answered "th".
C20_Witness ==
    /\ RatEq(patient_percentile, FromInt(112))
    /\ suffix = "th"

(***************************************************************************)
(* Properties of the chart builders.                                       *)
(***************************************************************************)
\* C21 (under Spec): for every Lp(a) measurement the sidebar allows, the
\* patient marker position computed in create_lpa_chart lies within
\* [0, 100], on the drawn bar and so inside the x-axis range [-5, 105].
C21_MarkerOnBar ==
    marker = "lpa"
        => /\ Between(0, patient_position, 100)
           /\ Between(-5, patient_position, 105)

\* C22 (under SpecPct): for every percentile, the risk text computed inside
\* the chart builder (create_standard_chart for a standard marker,
\* create_lpa_chart for Lp(a)) is the label get_risk_level returns for the
\* metric card.
C22_ChartRiskAgrees == chart_risk_text = risk_text

\* The standard chart's text at its lower threshold: percentile 20 is
\* Low Risk on the chart and on the card.
C22_Witness ==
    /\ marker \in StandardMarkers
    /\ RatEq(patient_percentile, FromInt(20))
    /\ chart_risk_text = "Low Risk"
    /\ risk_text = "Low Risk"

\* C23 (under SpecPct): for every percentile, create_export_chart's
\* map_percentile returns the position map_percentile_to_position returns;
\* every key percentile the exported Lp(a) chart labels is a key percentile
\* of the on-screen chart, placed at the same position.
C23_ExportMapping ==
    /\ RatEq(patient_pos, patient_position)
    /\ \A i \in 1..Len(export_lpa_key_percentiles) :
          RatEq(patient_percentile, FromInt(export_lpa_key_percentiles[i]))
              => /\ \E j \in 1..Len(tables.lpa_key_percentiles) :
                       tables.lpa_key_percentiles[j] = export_lpa_key_percentiles[i]
                 /\ RatEq(patient_pos, map_percentile_to_position(
                                           FromInt(export_lpa_key_percentiles[i])))

\* The key percentile 98, in the third segment: map_percentile(98) = 88, the
\* on-screen position.
C23_Witness ==
    /\ RatEq(patient_percentile, FromInt(98))
    /\ RatEq(patient_pos, FromInt(88))
    /\ RatEq(patient_position, FromInt(88))

(***************************************************************************)
(* Round trips, checked under SpecTrip.                                    *)
(***************************************************************************)
\* The number a round trip starts from, exactly and as the double handed to
\* get_percentile.
TripStart == IF direction = "value" THEN patient_value ELSE patient_percentile

TripStartDouble == DblDivInt(TripStart.num, TripStart.den)

\* C24, as stated: on each reference table (P, V), for every measurement v
\* with V[first] <= v <= V[last], get_percentile(get_percentile(v, P, V),
\* V, P) returns v, and for every percentile p in [P[first], P[last]],
\* get_percentile(get_percentile(p, V, P), P, V) returns p.
C24_AsStated == stage = "back" => DblEq(trip_double, TripStartDouble)

\* C24, amended: the round trip returns the number it started from up to
\* floating-point rounding, within 2^-30 (about 1e-9) of it, in both
\* directions; in real arithmetic it returns that number exactly.
C24_Amended ==
    stage = "back"
        => /\ RatEq(trip_exact, TripStart)
           /\ DblWithin(trip_double, TripStartDouble, 30)

\* A round trip that misses its start by rounding: ApoB 126 mg/dL comes
\* back as the next double above 126.
C24_Witness ==
    /\ marker = "apoB"
    /\ direction = "value"
    /\ stage = "back"
    /\ RatEq(patient_value, FromInt(126))
    /\ DblLT(DblFromInt(126), trip_double)
    /\ DblWithin(trip_double, DblFromInt(126), 45)

====
